---------------------------- MODULE Spec2Model ----------------------------
(***************************************************************************)
(* A model of the e-mail planning bot (src/telegram_bot.py) and of its     *)
(* scheduler (src/email_scheduler.py).                                     *)
(*                                                                         *)
(* Text is modelled character by character: a Python str is a sequence of  *)
(* one-character strings, so that strip, startswith, replace, split, int   *)
(* and the substring test are computed as the code computes them.          *)
(*                                                                         *)
(* Time is an integer number of minutes since 2024-01-01 00:00 (local      *)
(* time); the scheduler loop sleeps 60 seconds between polls, which is one *)
(* unit.  The job store is the module-global default scheduler of the      *)
(* `schedule` package (imported at src/email_scheduler.py:17): a Python    *)
(* list of jobs, run_pending() running `sorted` due jobs, clear(tag)       *)
(* removing the jobs that carry exactly that tag.                          *)
(***************************************************************************)
EXTENDS Integers, Sequences, FiniteSets, TLC

VARIABLES
    now,                    \* datetime.now(), in minutes since the epoch
    jobs,                   \* schedule.jobs: the job store, in registration order
    nextJobId,              \* identity of the next Job object created
    threads,                \* the contexts that run run_scheduler()
    fired,                  \* per job id, how often its action was executed
    conversation_memory,    \* user id -> [messages]
    email_planning_state,   \* user id -> data of the attachment request
    user_emails,            \* user id -> address set with /set
    mainPc,                 \* where the message-handling path stands
    pending,                \* the handler suspended inside a registration
    reply,                  \* the reply of the last handler
    lastOp,                 \* the operation that made the last step
    calls,                  \* handler and API calls made so far
    arg,                    \* the argument a parsing function is applied to
    result                  \* what the function returned for it

vars == <<now, jobs, nextJobId, threads, fired, conversation_memory,
          email_planning_state, user_emails, mainPc, pending, reply, lastOp,
          calls, arg, result>>

---------------------------------------------------------------------------
(* Units of time.                                                          *)

Minute == 1

Hour == 60

Day == 24 * Hour

(* Bounds of the model.                                                    *)

\* handler and API calls of the message-handling path in one behaviour
MaxCalls == 2

\* how often time advances in one behaviour
MaxTicks == 2

\* the same two bounds where the conversation is checked
ConvCalls == 2

ConvTicks == 1

\* config "max_conversation_history"
MaxHistory == 4

Users == {1, 2}

---------------------------------------------------------------------------
(* Python str operations on sequences of characters.                       *)

IsSpace(c) == c \in {" ", "\n", "\t"}

RECURSIVE lstrip(_)
lstrip(s) == IF s # <<>> /\ IsSpace(Head(s)) THEN lstrip(Tail(s)) ELSE s

RECURSIVE rstrip(_)
rstrip(s) ==
    IF s # <<>> /\ IsSpace(s[Len(s)]) THEN rstrip(SubSeq(s, 1, Len(s) - 1)) ELSE s

strip(s) == rstrip(lstrip(s))

startswith(s, p) == Len(s) >= Len(p) /\ SubSeq(s, 1, Len(p)) = p

\* `p in s`
contains(s, p) == \E i \in 1..(Len(s) - Len(p) + 1) : SubSeq(s, i, i + Len(p) - 1) = p

\* s.replace(p, ""): every occurrence of p, left to right, is removed
RECURSIVE remove(_, _)
remove(s, p) ==
    IF s = <<>> THEN <<>>
    ELSE IF startswith(s, p) THEN remove(SubSeq(s, Len(p) + 1, Len(s)), p)
    ELSE <<Head(s)>> \o remove(Tail(s), p)

\* s.split(c) for a one-character separator c: empty fields are kept
RECURSIVE split(_, _)
split(s, c) ==
    IF \A i \in 1..Len(s) : s[i] # c THEN <<s>>
    ELSE LET i == CHOOSE k \in 1..Len(s) : s[k] = c /\ \A j \in 1..(k - 1) : s[j] # c
         IN  <<SubSeq(s, 1, i - 1)>> \o split(SubSeq(s, i + 1, Len(s)), c)

\* s.split(): fields are separated by runs of whitespace, no empty field
RECURSIVE splitws(_)
splitws(s) ==
    LET t == lstrip(s)
    IN  IF t = <<>> THEN <<>>
        ELSE LET n == IF \E k \in 1..Len(t) : IsSpace(t[k])
                      THEN (CHOOSE k \in 1..Len(t) :
                                IsSpace(t[k]) /\ \A j \in 1..(k - 1) : ~IsSpace(t[j])) - 1
                      ELSE Len(t)
             IN  <<SubSeq(t, 1, n)>> \o splitws(SubSeq(t, n + 1, Len(t)))

UpperCase == <<"A", "B", "C", "D", "E", "F", "G", "H", "I", "J", "K", "L", "M",
               "N", "O", "P", "Q", "R", "S", "T", "U", "V", "W", "X", "Y", "Z">>

LowerCase == <<"a", "b", "c", "d", "e", "f", "g", "h", "i", "j", "k", "l", "m",
               "n", "o", "p", "q", "r", "s", "t", "u", "v", "w", "x", "y", "z">>

lowerChar(c) ==
    IF \E i \in 1..26 : UpperCase[i] = c
    THEN LowerCase[CHOOSE i \in 1..26 : UpperCase[i] = c]
    ELSE c

lower(s) == [i \in 1..Len(s) |-> lowerChar(s[i])]

Digits == <<"0", "1", "2", "3", "4", "5", "6", "7", "8", "9">>

IsDigit(c) == \E i \in 1..10 : Digits[i] = c

DigitVal(c) == (CHOOSE i \in 1..10 : Digits[i] = c) - 1

RECURSIVE NatVal(_)
NatVal(s) == IF s = <<>> THEN 0 ELSE 10 * NatVal(SubSeq(s, 1, Len(s) - 1)) + DigitVal(s[Len(s)])

\* int(s) raises ValueError unless s is, between optional whitespace, an
\* optional sign and then digits
IntBody(s) == IF strip(s) # <<>> /\ Head(strip(s)) \in {"+", "-"} THEN Tail(strip(s)) ELSE strip(s)

IsInt(s) == IntBody(s) # <<>> /\ \A i \in 1..Len(IntBody(s)) : IsDigit(IntBody(s)[i])

int(s) == IF Head(strip(s)) = "-" THEN 0 - NatVal(IntBody(s)) ELSE NatVal(IntBody(s))

\* the digits of a literal without its leading zeros
RECURSIVE Significant(_)
Significant(d) == IF Len(d) > 1 /\ Head(d) = "0" THEN Significant(Tail(d)) ELSE d

\* a > b for two digit strings of the same length
RECURSIVE DigitsAbove(_, _)
DigitsAbove(a, b) ==
    IF a = <<>> THEN FALSE
    ELSE IF Head(a) # Head(b) THEN DigitVal(Head(a)) > DigitVal(Head(b))
    ELSE DigitsAbove(Tail(a), Tail(b))

\* the magnitude of INT_MAX, and of INT_MIN
IntMax == <<"2", "1", "4", "7", "4", "8", "3", "6", "4", "7">>

IntMin == <<"2", "1", "4", "7", "4", "8", "3", "6", "4", "8">>

\* int(s) does not fit the C int that datetime() converts its arguments
\* to: OverflowError
BeyondCInt(s) ==
    LET d     == Significant(IntBody(s))
        limit == IF Head(strip(s)) = "-" THEN IntMin ELSE IntMax
    IN  Len(d) > Len(limit) \/ (Len(d) = Len(limit) /\ DigitsAbove(d, limit))

\* str(n) of an integer
RECURSIVE NatStr(_)
NatStr(n) == IF n < 10 THEN <<Digits[n + 1]>> ELSE NatStr(n \div 10) \o <<Digits[(n % 10) + 1]>>

IntStr(n) == IF n < 0 THEN <<"-">> \o NatStr(0 - n) ELSE NatStr(n)

---------------------------------------------------------------------------
(* The textual protocol of the reasoning capability.                       *)

\* "GOTOWE:"
GOTOWE == <<"G", "O", "T", "O", "W", "E", ":">>

\* the attachment-request marker of line 364, written without diacritics
ZALACZNIK == <<"Z", "A", "L", "A", "C", "Z", "N", "I", "K", ":">>

NoData == [subject |-> <<>>, body |-> <<>>, send_time |-> <<>>, info |-> <<>>,
           message |-> <<>>]

\* the fields of "GOTOWE:" data: the marker removed wherever it stands,
\* the rest stripped and split at every "|"
ReadyParts(response) == split(strip(remove(strip(response), GOTOWE)), "|")

\* enough fields for a plan (line 353)
EnoughParts(parts) == Len(parts) >= 3

\* parse_ai_response: action "None" is Python's None, returned when the
\* marker is there and the fields are too few (no return statement runs)
parse_ai_response(response) ==
    LET r == strip(response)
    IN  IF startswith(r, GOTOWE)
        THEN IF EnoughParts(ReadyParts(response))
             THEN [action |-> "schedule_email",
                   data |-> [NoData EXCEPT !.subject = strip(ReadyParts(response)[1]),
                                           !.body = strip(ReadyParts(response)[2]),
                                           !.send_time = strip(ReadyParts(response)[3])]]
             ELSE [action |-> "None", data |-> NoData]
        ELSE IF startswith(r, ZALACZNIK)
        THEN [action |-> "request_attachment",
              data |-> [NoData EXCEPT !.info = strip(remove(r, ZALACZNIK))]]
        ELSE [action |-> "text_response", data |-> [NoData EXCEPT !.message = r]]

---------------------------------------------------------------------------
(* datetime: the proleptic Gregorian calendar, in minutes since            *)
(* 2024-01-01 00:00.                                                       *)

IsLeap(y) == (y % 4 = 0 /\ y % 100 # 0) \/ y % 400 = 0

DaysInMonth(y, m) ==
    IF m = 2 THEN (IF IsLeap(y) THEN 29 ELSE 28)
    ELSE IF m \in {4, 6, 9, 11} THEN 30 ELSE 31

\* days from 1970-01-01 to y-m-d
DaysFromCivil(y, m, d) ==
    LET yy  == IF m <= 2 THEN y - 1 ELSE y
        era == yy \div 400
        yoe == yy - era * 400
        mp  == IF m > 2 THEN m - 3 ELSE m + 9
        doy == (153 * mp + 2) \div 5 + d - 1
        doe == yoe * 365 + yoe \div 4 - yoe \div 100 + doy
    IN  era * 146097 + doe - 719468

EpochDay == DaysFromCivil(2024, 1, 1)

\* datetime.min and datetime.max as day numbers
MinDay == DaysFromCivil(1, 1, 1) - EpochDay

MaxDay == DaysFromCivil(9999, 12, 31) - EpochDay

\* datetime(year, month, day, hour, minute) raises ValueError outside these
ValidDate(y, m, d, h, mi) ==
    /\ y \in 1..9999 /\ m \in 1..12 /\ d >= 1 /\ d <= DaysInMonth(y, m)
    /\ h \in 0..23 /\ mi \in 0..59

datetime(y, m, d, h, mi) == (DaysFromCivil(y, m, d) - EpochDay) * Day + h * Hour + mi * Minute

\* now + timedelta(n units) leaves the range of datetime: OverflowError
Overflows(t, n, unit) ==
    LET perDay == Day \div unit
        day    == (t \div Day) + (n \div perDay) + (((t % Day) + (n % perDay) * unit) \div Day)
    IN  day < MinDay \/ day > MaxDay

Returned(t) == [raised |-> FALSE, t |-> t]

Raised == [raised |-> TRUE, t |-> 0]

\* now + timedelta(hours=1), the default of line 412
Fallback(t) == Returned(t + 1 * Hour)

\* the "za N unit" grammar (lines 380-391); the amounts of the model fit
\* the integers of the model checker
RelativeTime(s, t) ==
    LET parts == splitws(s)
    IN  IF Len(parts) >= 3
        THEN IF ~IsInt(parts[2]) THEN Fallback(t)
             ELSE LET amount == int(parts[2])
                      unit   == parts[3]
                      u      == IF contains(unit, <<"m", "i", "n", "u", "t">>) THEN Minute
                                ELSE IF contains(unit, <<"g", "o", "d", "z", "i", "n">>) THEN Hour
                                ELSE IF contains(unit, <<"d", "n", "i">>) THEN Day
                                ELSE 0
                  IN  IF u = 0 THEN Fallback(t)
                      ELSE IF Overflows(t, amount, u) THEN Raised
                      ELSE Returned(t + amount * u)
        ELSE Fallback(t)

AllInt(parts) == \A i \in 1..Len(parts) : IsInt(parts[i])

\* the "DD.MM.RRRR HH:MM" grammar (lines 394-398): ValueError, which is
\* caught, for wrong counts, for what is no integer and for a date that
\* does not exist; OverflowError for a number beyond the C int
AbsoluteTime(s, t) ==
    LET fields == splitws(s)
    IN  IF Len(fields) # 2 THEN Fallback(t)
        ELSE LET date == split(fields[1], ".")
                 time == split(fields[2], ":")
             IN  IF Len(date) # 3 \/ Len(time) # 2 \/ ~AllInt(date) \/ ~AllInt(time)
                 THEN Fallback(t)
                 ELSE IF \E n \in {date[1], date[2], date[3], time[1], time[2]} :
                            BeyondCInt(n)
                 THEN Raised
                 ELSE IF ~ValidDate(int(date[3]), int(date[2]), int(date[1]),
                                    int(time[1]), int(time[2]))
                 THEN Fallback(t)
                 ELSE Returned(datetime(int(date[3]), int(date[2]), int(date[1]),
                                        int(time[1]), int(time[2])))

\* a clock time that moves to the next day only when it is before now
RollsOverIfEarlier(target, t) == target < t

\* whether a clock time that is not after now moves to the next day
RollsOver(target, t) == target <= t

\* the "HH:MM" grammar (lines 401-406)
ClockTime(s, t) ==
    LET time == split(s, ":")
    IN  IF Len(time) # 2 \/ ~AllInt(time) THEN Fallback(t)
        ELSE IF ~(int(time[1]) \in 0..23 /\ int(time[2]) \in 0..59) THEN Fallback(t)
        ELSE LET target == (t \div Day) * Day + int(time[1]) * Hour + int(time[2]) * Minute
             IN  IF RollsOver(target, t)
                 THEN (IF (target \div Day) + 1 > MaxDay THEN Raised
                       ELSE Returned(target + Day))
                 ELSE Returned(target)

\* parse_send_time(time_str) read at the instant t
parse_send_time(time_str, t) ==
    LET s == lower(strip(time_str))
    IN  IF startswith(s, <<"z", "a", " ">>) THEN RelativeTime(s, t)
        ELSE IF contains(s, <<".">>) /\ contains(s, <<":">>) THEN AbsoluteTime(s, t)
        ELSE IF Len(s) = 5 /\ contains(s, <<":">>) THEN ClockTime(s, t)
        ELSE Fallback(t)

---------------------------------------------------------------------------
(* The job store: the default scheduler of the `schedule` package.         *)

\* how far one step of the clock moves it; the loop sleeps one minute
\* between polls, so every live loop polls at every instant of the grid
TickStep == 12 * Hour

\* the instant at which the bot starts: 2024-01-01 10:00
StartTime == 10 * Hour

\* Job.last_run is None until the job has run
NoRun == <<>>

\* a daily job is due at the first instant at its time of day after t
\* (Job._schedule_next_run with at_time set)
NextDaily(t, at) ==
    LET today == (t \div Day) * Day + at
    IN  IF today > t THEN today ELSE today + Day

\* the tag of a one-shot job (line 330) and the tag cancelled
\* when it fires (line 268)
Once == <<"o", "n", "c", "e", "_">>

\* str(datetime.timestamp()): the seconds since 1970, a float
TimestampStr(t) == IntStr((EpochDay * 24 * 60 + t) * 60) \o <<".", "0">>

JobTag(to_email, send_datetime) == Once \o to_email \o <<"_">> \o TimestampStr(send_datetime)

ClearTag(to_email) == Once \o to_email

\* schedule.every(delay_seconds).seconds.do(send_scheduled_email_once, ...):
\* the job as .do() appends it, not yet tagged
OnceJob(id, to_email, subject, body, send_datetime, attachments, t) ==
    [id |-> id, kind |-> "once", to |-> to_email, subject |-> subject, body |-> body,
     attachments |-> attachments, next_run |-> t + (send_datetime - t),
     period |-> send_datetime - t, at_time |-> -1, last_run |-> NoRun, tags |-> {}]

\* schedule.every().day.at(send_time).do(send_scheduled_email, ...)
DailyJob(id, to_email, subject, body, at, t) ==
    [id |-> id, kind |-> "daily", to |-> to_email, subject |-> subject, body |-> body,
     attachments |-> <<>>, next_run |-> NextDaily(t, at),
     period |-> Day, at_time |-> at, last_run |-> NoRun, tags |-> {}]

\* Job.should_run
should_run(job, t) == t >= job.next_run

\* Job.__lt__, the order `sorted` uses
JobBefore(a, b) == a.next_run < b.next_run

\* sorted(js): a stable insertion sort by JobBefore
RECURSIVE Insert(_, _)
Insert(sorted, job) ==
    IF sorted = <<>> THEN <<job>>
    ELSE IF JobBefore(job, Head(sorted)) THEN <<job>> \o sorted
    ELSE <<Head(sorted)>> \o Insert(Tail(sorted), job)

\* a run that takes the due jobs as the store lists them
UnsortedJobs(js) == js

RECURSIVE SortedJobs(_)
SortedJobs(js) ==
    IF js = <<>> THEN <<>>
    ELSE Insert(SortedJobs(SubSeq(js, 1, Len(js) - 1)), js[Len(js)])

RECURSIVE SelectJobs(_, _)
SelectJobs(js, t) ==
    IF js = <<>> THEN <<>>
    ELSE (IF should_run(Head(js), t) THEN <<Head(js)>> ELSE <<>>) \o SelectJobs(Tail(js), t)

\* the jobs run_pending() collects, in the order it runs them
RunnableJobs(js, t) == SortedJobs(SelectJobs(js, t))

\* whether schedule.clear(tag) drops a job
TagMatches(job, tag) == tag \in job.tags

\* schedule.clear(tag)
RECURSIVE clear(_, _)
clear(js, tag) ==
    IF js = <<>> THEN <<>>
    ELSE (IF TagMatches(Head(js), tag) THEN <<>> ELSE <<Head(js)>>) \o clear(Tail(js), tag)

\* Job.tag(t) on the job object with this identity
TagJob(js, id, tag) ==
    [i \in 1..Len(js) |-> IF js[i].id = id THEN [js[i] EXCEPT !.tags = @ \cup {tag}] ELSE js[i]]

\* after a daily job's action returns: last_run and the next run (Job.run)
Reschedule(js, id, t) ==
    [i \in 1..Len(js) |->
        IF js[i].id = id
        THEN [js[i] EXCEPT !.last_run = <<t>>,
                           !.next_run = IF js[i].kind = "daily" THEN NextDaily(t, js[i].at_time)
                                        ELSE t + js[i].period]
        ELSE js[i]]

JobIds(js) == {js[i].id : i \in 1..Len(js)}

JobOf(js, id) == js[CHOOSE i \in 1..Len(js) : js[i].id = id]

---------------------------------------------------------------------------
(* Sessions.                                                               *)

\* config "default_recipient" (line 145), "d@x.pl" in the model
default_recipient == <<"d", "@", "x", ".", "p", "l">>

\* get_user_memory: the session is created on first use
get_user_memory(mem, u) ==
    IF u \in DOMAIN mem THEN mem[u] ELSE [messages |-> <<>>]

\* get_user_email
get_user_email(emails, u) == IF u \in DOMAIN emails THEN emails[u] ELSE default_recipient

\* messages[-n:]: the last n elements for a positive n, the whole list for
\* n = 0 (the index -0 is the index 0), the list without its first -n
\* elements for a negative n
LastSlice(messages, n) ==
    IF n > 0
    THEN SubSeq(messages, IF Len(messages) > n THEN Len(messages) - n + 1 ELSE 1, Len(messages))
    ELSE SubSeq(messages, 1 - n, Len(messages))

\* the history kept after an append (lines 192-194)
Pruned(messages, max_history) ==
    IF Len(messages) > max_history THEN LastSlice(messages, max_history) ELSE messages

\* a memory that keeps a turn without the ready marker
add_without_marker(mem, u, role, content) ==
    LET messages == Append(get_user_memory(mem, u).messages,
                           [role |-> role, content |-> remove(content, GOTOWE)])
    IN  [v \in DOMAIN mem \cup {u} |->
            IF v = u THEN [messages |-> Pruned(messages, MaxHistory)] ELSE mem[v]]

\* add_to_memory under a configuration with the given
\* max_conversation_history
add_to_memory_under(max_history, mem, u, role, content) ==
    LET messages == Append(get_user_memory(mem, u).messages, [role |-> role, content |-> content])
    IN  [v \in DOMAIN mem \cup {u} |->
            IF v = u THEN [messages |-> Pruned(messages, max_history)] ELSE mem[v]]

\* add_to_memory
add_to_memory(mem, u, role, content) == add_to_memory_under(MaxHistory, mem, u, role, content)

\* the waiting-for-attachment flag (line 616)
WaitingForAttachment(state, u) == u \in DOMAIN state

\* a planning state that is never cleared
KeepPlanning(state, u) == state

\* del self.email_planning_state[user_id], if present (lines 474-475)
ClearPlanning(state, u) == [v \in DOMAIN state \ {u} |-> state[v]]

\* a planning state shared by all users
SetPlanningOfAll(state, u, data) == [v \in Users |-> data]

\* self.email_planning_state[user_id] = data (line 520)
SetPlanning(state, u, data) == [v \in DOMAIN state \cup {u} |-> IF v = u THEN data ELSE state[v]]

\* the content of the most recent assistant turn, <<>> if there is none
\* (lines 637-641)
RECURSIVE LastAssistant(_)
LastAssistant(messages) ==
    IF messages = <<>> THEN [found |-> FALSE, content |-> <<>>]
    ELSE IF messages[Len(messages)].role = "assistant"
    THEN [found |-> TRUE, content |-> messages[Len(messages)].content]
    ELSE LastAssistant(SubSeq(messages, 1, Len(messages) - 1))

\* the check of /set (line 739)
ValidEmail(email) ==
    /\ contains(email, <<"@">>)
    /\ contains(split(email, "@")[2], <<".">>)

---------------------------------------------------------------------------
(* The inputs of the model.                                                *)

Subject == <<"s">>

Body == <<"b">>

Za(n, unit) == <<"z", "a", " ">> \o IntStr(n) \o <<" ">> \o unit

Godzin == <<"g", "o", "d", "z", "i", "n">>

Minut == <<"m", "i", "n", "u", "t">>

Dni == <<"d", "n", "i">>

Ready(fields) == GOTOWE \o <<" ">> \o fields

Plan(time) == Ready(Subject \o <<"|">> \o Body \o <<"|">> \o time)

\* what the reasoning capability answers in the model: plans due at the
\* next instant of the grid, one day ahead and not in the future, a ready
\* marker with two fields, an attachment request and plain text
Responses ==
    { Plan(Za(12, Godzin)), Plan(Za(1, Dni)), Plan(Za(0, Minut)),
      Ready(Subject \o <<"|">> \o Body),
      ZALACZNIK \o <<" ", "p", "l", "i", "k">>,
      <<"o", "k">> }

\* the capability fails, answers without content, or answers with text
AiOutcomes ==
    {[kind |-> "error", content |-> <<>>], [kind |-> "empty", content |-> <<>>]}
        \cup {[kind |-> "text", content |-> r] : r \in Responses}

UserTexts == { <<"h", "e", "j">>, <<" ">> }

FileNames == { <<"f">> }

\* the arguments of /set: none, two addresses, not an address
SetArgs ==
    { <<>>, <<<<"a", "@", "b", ".", "c">>>>, <<<<"c", "@", "d", ".", "e">>>>, <<<<"a", "b">>>> }

\* the times of day given to schedule_email
DailyTimes == { <<"2", "1", ":", "0", "0">>, <<"9", ":", "0", "0">> }

---------------------------------------------------------------------------
(* Replies: the fixed texts are named by their kind.                       *)

Reply(kind, text) == [kind |-> kind, text |-> text, to |-> <<>>, when |-> 0]

NoReply == Reply("none", <<>>)

\* line 618
NotExpecting == Reply("not_expecting", <<>>)

\* lines 253 and 495
EmptyNotice == <<"N", "i", "e", " ", "o", "t", "r", "z", "y", "m", "a", "l", "e", "m">>

\* line 337
Apology == <<"P", "r", "z", "e", "p", "r", "a", "s", "z", "a", "m">>

\* line 333
NoAnswer == <<"N", "i", "e", " ", "o", "t", "r", "z", "y", "m", "a", "l", "e", "m", " ", "A", "I">>

\* line 477
Scheduled(subject, to_email, when) ==
    [kind |-> "scheduled", text |-> subject, to |-> to_email, when |-> when]

NoPending == [u |-> 0, id |-> 0, tag |-> <<>>, reply |-> NoReply, handler |-> "",
              data |-> NoData]

\* a step: the operation, the user or thread it belongs to, the job it
\* touched and how it ended; for a handler also the action it dispatched
\* with its data, and for the end of a registration the handler it ends
Op(op, who, job, ok) ==
    [op |-> op, who |-> who, job |-> job, ok |-> ok, handler |-> op,
     action |-> "none", data |-> NoData]

Dispatched(o, action, data) == [o EXCEPT !.action = action, !.data = data]

\* no function applied
NoArg == [fn |-> "none", text |-> <<>>, t |-> 0]

NoResult == [fn |-> "none"]

\* a context that has just entered run_scheduler()
NewThread(daemon) == [pc |-> "ready", due |-> <<>>, done |-> 0, daemon |-> daemon]

\* threading.Thread(target=run_scheduler, daemon=True).start()
start_scheduler_background(ts) == Append(ts, NewThread(TRUE))

Init ==
    /\ now = StartTime
    /\ jobs = <<>>
    /\ nextJobId = 1
    /\ threads = <<>>
    /\ fired = <<>>
    /\ conversation_memory = <<>>
    /\ email_planning_state = <<>>
    /\ user_emails = <<>>
    /\ mainPc = "idle"
    /\ pending = NoPending
    /\ reply = NoReply
    /\ lastOp = Op("init", 0, 0, FALSE)
    /\ calls = 0
    /\ arg = NoArg
    /\ result = NoResult

---------------------------------------------------------------------------
(* The message-handling path.                                              *)

\* n in decimal, two digits at least
Padded(n) == IF n < 10 THEN <<"0">> \o NatStr(n) ELSE NatStr(n)

\* the date of a day number, within the years the clock of the model is in
CivilOf(day) ==
    CHOOSE c \in [y : 2023..2025, m : 1..12, d : 1..31] :
        /\ c.d <= DaysInMonth(c.y, c.m)
        /\ DaysFromCivil(c.y, c.m, c.d) - EpochDay = day

\* get_actual_datetime: now.strftime("%d.%m.%Y %H:%M")
get_actual_datetime(t) ==
    LET c == CivilOf(t \div Day)
    IN  Padded(c.d) \o <<".">> \o Padded(c.m) \o <<".">> \o NatStr(c.y) \o <<" ">>
            \o Padded((t % Day) \div Hour) \o <<":">> \o Padded(t % Hour)

\* get_conversation_context: the instructions, which name the address of
\* the user, then the history
get_conversation_context(mem, emails, u) ==
    <<[role |-> "system", content |-> get_user_email(emails, u)]>>
        \o get_user_memory(mem, u).messages

\* the turns with content (lines 262-265)
clean_context(context) == SelectSeq(context, LAMBDA msg : msg.content # <<>>)

\* the functions offered to the capability (lines 271-290)
KnownTools == {"get_actual_datetime", "get_user_email"}

\* what lines 303-320 append to the context for a function call: the turn
\* of the function, without the fixed words before its value
ToolResult(name, emails, u, t) ==
    IF name = "get_actual_datetime"
    THEN <<[role |-> "function", name |-> name, content |-> get_actual_datetime(t)]>>
    ELSE IF name = "get_user_email"
    THEN <<[role |-> "function", name |-> name, content |-> get_user_email(emails, u)]>>
    ELSE <<>>

\* the contexts the capability is called with for one message, in order
\* (lines 293-298 and 323-326)
Invocations(mem, emails, u, text, ai, t) ==
    IF strip(text) = <<>> THEN <<>>
    ELSE LET first == clean_context(get_conversation_context(
                          add_to_memory(mem, u, "user", text), emails, u))
         IN  IF ai.kind = "function_call"
             THEN <<first, first \o ToolResult(ai.name, emails, u, t)>>
             ELSE <<first>>

\* the response read at line 328: after a function call, that of the second
\* call
FinalResponse(ai) == IF ai.kind = "function_call" THEN ai.then ELSE ai

\* analyze_message_with_ai: the memory it leaves and the text it returns
analyze_message_with_ai(mem, u, text, ai) ==
    IF strip(text) = <<>> THEN [memory |-> mem, response |-> EmptyNotice]
    ELSE LET heard == add_to_memory(mem, u, "user", text)
             final == FinalResponse(ai)
         IN  CASE final.kind = "error" -> [memory |-> heard, response |-> Apology]
               [] final.kind = "empty" -> [memory |-> heard, response |-> NoAnswer]
               [] OTHER -> [memory |-> add_to_memory(heard, u, "assistant", final.content),
                            response |-> final.content]

\* a check that lets the present instant pass
NotInPast(send_datetime, t) == ~(send_datetime < t)

\* schedule_email_datetime registers only an instant in the future (line 319)
InFuture(send_datetime, t) == ~(send_datetime <= t)

\* schedule_email_from_ai, as far as the append of the job done by .do():
\* the handler is then inside the registration, and FinishRegistration
\* runs the rest of it
schedule_email_from_ai(u, email_data, attachments, op) ==
    LET parsed  == parse_send_time(email_data.send_time, now)
        to      == get_user_email(user_emails, u)
        success == Scheduled(email_data.subject, to, parsed.t)
    IN  IF parsed.raised
        THEN /\ reply' = Reply("schedule_error", <<>>)
             /\ lastOp' = Dispatched(Op(op, u, 0, FALSE), "schedule_email", email_data)
             /\ UNCHANGED <<jobs, nextJobId, fired, threads, email_planning_state,
                            mainPc, pending>>
        ELSE IF InFuture(parsed.t, now)
        THEN /\ jobs' = Append(jobs, OnceJob(nextJobId, to, email_data.subject,
                                             email_data.body, parsed.t, attachments, now))
             /\ nextJobId' = nextJobId + 1
             /\ fired' = Append(fired, 0)
             /\ mainPc' = "registering"
             /\ pending' = [u |-> u, id |-> nextJobId, tag |-> JobTag(to, parsed.t),
                            reply |-> success, handler |-> op, data |-> email_data]
             /\ reply' = NoReply
             /\ lastOp' = Dispatched(Op(op, u, nextJobId, TRUE), "schedule_email", email_data)
             /\ UNCHANGED <<threads, email_planning_state>>
        ELSE /\ threads' = start_scheduler_background(threads)
             /\ email_planning_state' = ClearPlanning(email_planning_state, u)
             /\ reply' = success
             /\ lastOp' = Dispatched(Op(op, u, 0, TRUE), "schedule_email", email_data)
             /\ UNCHANGED <<jobs, nextJobId, fired, mainPc, pending>>

\* the rest of schedule_email_datetime and of schedule_email_from_ai:
\* .tag(...), the scheduler thread, the planning state, the reply
FinishRegistration ==
    /\ mainPc = "registering"
    /\ jobs' = TagJob(jobs, pending.id, pending.tag)
    /\ threads' = start_scheduler_background(threads)
    /\ email_planning_state' = ClearPlanning(email_planning_state, pending.u)
    /\ reply' = pending.reply
    /\ mainPc' = "idle"
    /\ pending' = NoPending
    /\ lastOp' = [Dispatched(Op("registered", pending.u, pending.id, TRUE),
                              "schedule_email", pending.data)
                      EXCEPT !.handler = pending.handler]
    /\ UNCHANGED <<now, nextJobId, fired, conversation_memory, user_emails, calls,
                   arg, result>>

\* what follows the analysis in handle_text_message (lines 501-529) and in
\* process_transcribed_message (lines 573-601); caught tells whether the
\* handler has an except branch around it
DispatchIn(u, ai_response, op, caught) ==
    LET parsed == parse_ai_response(ai_response)
    IN  CASE parsed.action = "schedule_email" ->
                schedule_email_from_ai(u, parsed.data, <<>>, op)
          [] parsed.action = "request_attachment" ->
                /\ email_planning_state' = SetPlanning(email_planning_state, u, parsed.data)
                /\ reply' = Reply("request_attachment", parsed.data.info)
                /\ lastOp' = Dispatched(Op(op, u, 0, TRUE), "request_attachment", parsed.data)
                /\ UNCHANGED <<jobs, nextJobId, fired, threads, mainPc, pending>>
          [] parsed.action = "text_response" ->
                /\ reply' = Reply("text", ai_response)
                /\ lastOp' = Dispatched(Op(op, u, 0, TRUE), "text_response", parsed.data)
                /\ UNCHANGED <<jobs, nextJobId, fired, threads, email_planning_state,
                               mainPc, pending>>
          [] OTHER ->
                \* None does not unpack: TypeError leaves the handler, or
                \* its except branch replies (lines 603-605)
                /\ reply' = IF caught THEN Reply("transcription_error", <<>>) ELSE NoReply
                /\ lastOp' = Op(op, u, 0, FALSE)
                /\ UNCHANGED <<jobs, nextJobId, fired, threads, email_planning_state,
                               mainPc, pending>>

\* handle_text_message has no except branch
Dispatch(u, ai_response, op) == DispatchIn(u, ai_response, op, FALSE)

\* handle_text_message, the step labelled op
handle_text_as(u, text, ai, op) ==
    /\ mainPc = "idle"
    /\ calls' = calls + 1
    /\ UNCHANGED <<now, user_emails, arg, result>>
    /\ IF strip(text) = <<>>
       THEN /\ reply' = Reply("text", EmptyNotice)
            /\ lastOp' = Op(op, u, 0, TRUE)
            /\ UNCHANGED <<jobs, nextJobId, fired, threads, conversation_memory,
                           email_planning_state, mainPc, pending>>
       ELSE LET analysed == analyze_message_with_ai(conversation_memory, u, text, ai)
            IN  /\ conversation_memory' = analysed.memory
                /\ Dispatch(u, analysed.response, op)

handle_text_message(u, text, ai) == handle_text_as(u, text, ai, "text")

\* process_transcribed_message: the analysis returns the notice of line 253
\* for a text without content, and the reply is that response (line 601)
process_transcribed_message(u, text, ai) ==
    LET analysed == analyze_message_with_ai(conversation_memory, u, text, ai)
    IN  /\ mainPc = "idle"
        /\ calls' = calls + 1
        /\ UNCHANGED <<now, user_emails, arg, result>>
        /\ conversation_memory' = analysed.memory
        /\ IF strip(text) = <<>>
           THEN /\ parse_ai_response(analysed.response).action = "text_response"
                /\ reply' = Reply("text", analysed.response)
                /\ lastOp' = Op("voice", u, 0, TRUE)
                /\ UNCHANGED <<jobs, nextJobId, fired, threads, email_planning_state,
                               mainPc, pending>>
           ELSE DispatchIn(u, analysed.response, "voice", TRUE)

\* a handler that takes every file
AcceptsAnyDocument(u) == TRUE

\* a handler that takes no file
RefusesDocument(u) == FALSE

\* whether handle_document takes the file (line 616)
AcceptsDocument(u) == WaitingForAttachment(email_planning_state, u)

\* os.path.join("attachments", f"attachment_{user_id}_{timestamp}_{file_name}")
AttachmentPath(u, t, file_name) ==
    <<"a", "t", "t", "a", "c", "h", "m", "e", "n", "t", "s", "/">>
        \o <<"a", "t", "t", "a", "c", "h", "m", "e", "n", "t", "_">>
        \o IntStr(u) \o <<"_">> \o TimestampStr(t) \o <<"_">> \o file_name

handle_document(u, file_name) ==
    /\ mainPc = "idle"
    /\ calls' = calls + 1
    /\ UNCHANGED <<now, user_emails, conversation_memory, arg, result>>
    /\ IF ~AcceptsDocument(u)
       THEN /\ reply' = NotExpecting
            /\ lastOp' = Op("document", u, 0, FALSE)
            /\ UNCHANGED <<jobs, nextJobId, fired, threads, email_planning_state,
                           mainPc, pending>>
       ELSE LET last == LastAssistant(get_user_memory(conversation_memory, u).messages)
                path == AttachmentPath(u, now, file_name)
            IN  IF last.found /\ last.content # <<>> /\ startswith(last.content, GOTOWE)
                THEN IF parse_ai_response(last.content).action = "None"
                     THEN \* TypeError, caught at line 653
                          /\ reply' = Reply("attachment_error", <<>>)
                          /\ lastOp' = Op("document", u, 0, FALSE)
                          /\ UNCHANGED <<jobs, nextJobId, fired, threads,
                                         email_planning_state, mainPc, pending>>
                     ELSE schedule_email_from_ai(u, parse_ai_response(last.content).data,
                                                 <<path>>, "document")
                ELSE /\ reply' = Reply("attachment_saved", path)
                     /\ lastOp' = Op("document", u, 0, TRUE)
                     /\ UNCHANGED <<jobs, nextJobId, fired, threads,
                                    email_planning_state, mainPc, pending>>

\* an address book that ignores /set
forget_user_email(emails, u, email) == emails

\* set_user_email
set_user_email(emails, u, email) ==
    [v \in DOMAIN emails \cup {u} |-> IF v = u THEN email ELSE emails[v]]

set_command(u, args) ==
    /\ mainPc = "idle"
    /\ calls' = calls + 1
    /\ UNCHANGED <<arg, result, now, jobs, nextJobId, fired, threads, conversation_memory,
                   email_planning_state, mainPc, pending>>
    /\ IF Len(args) > 0
       THEN IF ValidEmail(strip(args[1]))
            THEN /\ user_emails' = set_user_email(user_emails, u, strip(args[1]))
                 /\ reply' = Reply("email_set", strip(args[1]))
                 /\ lastOp' = Op("set", u, 0, TRUE)
            ELSE /\ reply' = Reply("email_invalid", <<>>)
                 /\ lastOp' = Op("set", u, 0, FALSE)
                 /\ UNCHANGED user_emails
       ELSE /\ reply' = Reply("email_show", get_user_email(user_emails, u))
            /\ lastOp' = Op("set", u, 0, TRUE)
            /\ UNCHANGED user_emails

---------------------------------------------------------------------------
(* The scheduler (src/email_scheduler.py).                                 *)

TwoDigits(s) == Len(s) = 2 /\ IsDigit(s[1]) /\ IsDigit(s[2])

\* datetime.strptime(send_time, "%H:%M") does not raise
strptimeHM(s) ==
    LET f == split(s, ":")
    IN  /\ Len(f) = 2
        /\ \A i \in 1..2 : Len(f[i]) \in 1..2 /\ \A k \in 1..Len(f[i]) : IsDigit(f[i][k])
        /\ NatVal(f[1]) <= 23 /\ NatVal(f[2]) <= 59

\* Job.at(send_time) of a daily job does not raise: HH:MM, two digits each
AtAccepts(s) == LET f == split(s, ":") IN Len(f) = 2 /\ TwoDigits(f[1]) /\ TwoDigits(f[2])

TimeOfDay(s) == NatVal(split(s, ":")[1]) * Hour + NatVal(split(s, ":")[2]) * Minute

\* schedule_email: a job for every day at send_time
schedule_email(to_email, subject, body, send_time) ==
    /\ mainPc = "idle"
    /\ calls' = calls + 1
    /\ IF strptimeHM(send_time) /\ AtAccepts(send_time)
       THEN /\ jobs' = Append(jobs, DailyJob(nextJobId, to_email, subject, body,
                                             TimeOfDay(send_time), now))
            /\ nextJobId' = nextJobId + 1
            /\ fired' = Append(fired, 0)
            /\ lastOp' = Op("schedule_email", 0, nextJobId, TRUE)
       ELSE /\ lastOp' = Op("schedule_email", 0, 0, FALSE)
            /\ UNCHANGED <<jobs, nextJobId, fired>>
    /\ UNCHANGED <<arg, result, now, threads, conversation_memory, email_planning_state,
                   user_emails,
                   mainPc, pending, reply>>

\* main() with --run: the process enters run_scheduler() (lines 401-403)
run_scheduler ==
    /\ mainPc = "idle"
    /\ calls' = calls + 1
    /\ threads' = Append(threads, NewThread(FALSE))
    /\ lastOp' = Op("run_scheduler", Len(threads) + 1, 0, TRUE)
    /\ UNCHANGED <<arg, result, now, jobs, nextJobId, fired, conversation_memory,
                   email_planning_state,
                   user_emails, mainPc, pending, reply>>

\* what run_pending() keeps of a job it collected
Collected(job) == [id |-> job.id, key |-> job.next_run, kind |-> job.kind, to |-> job.to]

CollectAll(js) == [i \in 1..Len(js) |-> Collected(js[i])]

\* schedule.run_pending() begins: the due jobs are collected and sorted
run_pending(w) ==
    /\ w \in 1..Len(threads)
    /\ threads[w].pc = "ready"
    /\ LET due == CollectAll(RunnableJobs(jobs, now))
       IN  threads' = [threads EXCEPT ![w] =
                          [pc |-> IF due = <<>> THEN "sleeping" ELSE "run",
                           due |-> due, done |-> 0, daemon |-> threads[w].daemon]]
    /\ lastOp' = Op("run_pending", w, 0, TRUE)
    /\ UNCHANGED <<arg, result, now, jobs, nextJobId, fired, conversation_memory,
                   email_planning_state,
                   user_emails, mainPc, pending, reply, calls>>

\* whether the action of a job ends the loop that ran it: the one-shot
\* action raises SystemExit after the send, whatever its outcome (line 271)
StopsLoop(job, sent) == job.kind = "once"

\* the jobs left by the action of a job: send_scheduled_email_once
\* cancels by tag (line 268), send_scheduled_email returns and the job is
\* scheduled for its next run
AfterAction(js, job, t) ==
    IF job.kind = "once" THEN clear(js, ClearTag(job.to))
    ELSE Reschedule(js, job.id, t)

\* run_pending() runs the next of the jobs it collected; sent is what the
\* mail transport reports
run_job(w, sent) ==
    /\ w \in 1..Len(threads)
    /\ threads[w].pc = "run"
    /\ LET job == threads[w].due[threads[w].done + 1]
       IN  /\ fired' = [fired EXCEPT ![job.id] = @ + 1]
           /\ jobs' = AfterAction(jobs, job, now)
           /\ threads' = [threads EXCEPT ![w] =
                  [pc |-> IF StopsLoop(job, sent) THEN "exited"
                          ELSE IF threads[w].done + 1 = Len(threads[w].due) THEN "sleeping"
                          ELSE "run",
                   due |-> threads[w].due, done |-> threads[w].done + 1,
                   daemon |-> threads[w].daemon]]
           /\ lastOp' = Op("run_job", w, job.id, sent)
    /\ UNCHANGED <<arg, result, now, nextJobId, conversation_memory, email_planning_state,
                   user_emails,
                   mainPc, pending, reply, calls>>

\* time.sleep(60) returns in every loop: the clock moves to the next
\* instant of the grid
Tick ==
    /\ mainPc = "idle"
    /\ \A w \in 1..Len(threads) : threads[w].pc \in {"sleeping", "exited"}
    /\ now' = now + TickStep
    /\ threads' = [w \in 1..Len(threads) |->
                      IF threads[w].pc = "sleeping" THEN [threads[w] EXCEPT !.pc = "ready"]
                      ELSE threads[w]]
    /\ lastOp' = Op("tick", 0, 0, TRUE)
    /\ UNCHANGED <<arg, result, jobs, nextJobId, fired, conversation_memory,
                   email_planning_state, user_emails, mainPc, pending, reply, calls>>

\* the plans among the answers: what the scheduler is given to do
PlanOutcomes ==
    {[kind |-> "text", content |-> Plan(t)] : t \in {Za(10, Godzin), Za(12, Godzin)}}

Hello == <<"h", "e", "j">>

Budget == calls < MaxCalls

Time == now < StartTime + MaxTicks * TickStep

(* The scheduler at work: plans arrive as messages, daily jobs and loops   *)
(* through the scheduler's own interface.                                  *)
Next ==
    \/ Budget /\ \E u \in Users, ai \in PlanOutcomes : handle_text_message(u, Hello, ai)
    \/ FinishRegistration
    \/ Budget /\ \E at \in DailyTimes : schedule_email(default_recipient, Subject, Body, at)
    \/ Budget /\ run_scheduler
    \/ \E w \in 1..Len(threads) : run_pending(w)
    \/ \E w \in 1..Len(threads), sent \in BOOLEAN : run_job(w, sent)
    \/ Time /\ Tick

Spec == Init /\ [][Next]_vars

ConvBudget == calls < ConvCalls

ConvTime == now < StartTime + ConvTicks * TickStep

(* The conversation at work: every answer of the capability, files and     *)
(* /set, with the scheduler threads the plans start.                       *)
ConvNext ==
    \/ ConvBudget /\ \E u \in Users, text \in UserTexts, ai \in AiOutcomes :
                        handle_text_message(u, text, ai)
    \/ ConvBudget /\ \E u \in Users, f \in FileNames : handle_document(u, f)
    \/ ConvBudget /\ \E u \in Users, args \in SetArgs : set_command(u, args)
    \/ FinishRegistration
    \/ \E w \in 1..Len(threads) : run_pending(w)
    \/ \E w \in 1..Len(threads), sent \in BOOLEAN : run_job(w, sent)
    \/ ConvTime /\ Tick

ConvSpec == Init /\ [][ConvNext]_vars

\* threads are scheduled and the clock advances: every loop that can
\* poll or run its next job does so, and time does not stop before the
\* bound of the model
FairSpec ==
    /\ Spec
    /\ WF_vars(Time /\ Tick)
    /\ \A w \in 1..MaxCalls : WF_vars(run_pending(w))
    /\ \A w \in 1..MaxCalls : WF_vars(\E sent \in BOOLEAN : run_job(w, sent))

\* "|".join(fields)
RECURSIVE Join(_)
Join(fields) ==
    IF Len(fields) = 0 THEN <<>>
    ELSE IF Len(fields) = 1 THEN fields[1]
    ELSE fields[1] \o <<"|">> \o Join(Tail(fields))

Plik == <<" ", "p", "l", "i", "k">>

---------------------------------------------------------------------------
(* Files at work: attachment requests, plans and the files that follow.    *)

\* handler calls and steps of the clock in the behaviours with files
DocCalls == 3

DocTicks == 1

\* an amount of minutes that leads before the year 1 from the first instant
\* of the model and to the year 1 from the next one
LongAgo == Za(MinDay * Day - (StartTime + TickStep), Minut)

\* what the capability answers here: a plan for the next instant of the
\* grid, a plan whose time cannot be computed yet, an attachment request
\* and a ready marker with two fields
DocOutcomes ==
    {[kind |-> "text", content |-> r] :
        r \in { Plan(Za(12, Godzin)), Plan(LongAgo), ZALACZNIK \o Plik,
                Ready(Join(<<Subject, Body>>)) }}

DocBudget == calls < DocCalls

DocTime == now < StartTime + DocTicks * TickStep

DocNext ==
    \/ DocBudget /\ \E u \in Users, ai \in DocOutcomes : handle_text_message(u, Hello, ai)
    \/ DocBudget /\ \E u \in Users, f \in FileNames : handle_document(u, f)
    \/ FinishRegistration
    \/ \E w \in 1..Len(threads) : run_pending(w)
    \/ \E w \in 1..Len(threads), sent \in BOOLEAN : run_job(w, sent)
    \/ DocTime /\ Tick

DocSpec == Init /\ [][DocNext]_vars

---------------------------------------------------------------------------
(* The parsing functions applied to texts of their grammars.               *)

\* what a field holds: text, text in blanks, text after the marker, nothing
Fields == { <<"s">>, <<" ", "s", " ">>, GOTOWE \o <<"s">>, <<>> }

\* answers of the capability: the ready marker with one to four fields,
\* alone and after a blank, the attachment marker once and twice, text
ProtocolTexts ==
    {Ready(Join(fs)) : fs \in [1..3 -> Fields]}
        \cup {Ready(Join(fs)) : fs \in [1..2 -> {Subject, Body}]}
        \cup { Ready(Join(<<Subject, Body, Za(2, Godzin), Subject>>)),
               Ready(Subject), GOTOWE, <<" ">> \o Plan(Za(2, Godzin)),
               ZALACZNIK \o Plik, ZALACZNIK \o Plik \o <<" ">> \o ZALACZNIK \o Plik,
               ZALACZNIK, <<"o", "k">>, <<" ", "o", "k", " ">> }

\* the amounts of "za N unit": negative, none, small, beyond the year 9999
Amounts == {0 - 1, 0, 2, 30, 4000000}

Units == { Minut, Minut \o <<"y">>, Godzin, Godzin \o <<"y">>, Dni }

\* time expressions: relative, of the clock, absolute, and of no grammar
TimeTexts ==
    {Za(n, unit) : n \in Amounts, unit \in Units}
        \cup { <<"1", "4", ":", "3", "0">>, <<"0", "9", ":", "0", "0">>,
               <<"1", "0", ":", "0", "0">>, <<"2", "5", ":", "0", "0">>,
               <<"9", ":", "0", "0">>,
               <<"0", "1", ".", "0", "1", ".", "2", "0", "2", "4", " ", "0", "9", ":", "0", "0">>,
               <<"0", "2", ".", "0", "1", ".", "2", "0", "2", "4", " ", "1", "0", ":", "0", "0">>,
               <<"3", "1", ".", "0", "2", ".", "2", "0", "2", "4", " ", "1", "0", ":", "0", "0">>,
               <<"j", "u", "t", "r", "o">>, <<"z", "a", " ", "x", " ">> \o Minut,
               <<"z", "a", " ", "5">>, <<"Z", "a", " ", "2", " ", "G", "O", "D", "Z", "I", "N", "Y">>,
               <<"z", "a", " ", "2", " ", "l", "a", "t", "a">>, <<>>,
               <<"2", "3", ":", "5", "9">>, <<"z", "a", " ", "1", "4", ":", "3", "0">>,
               <<"0", "1", ".", "0", "1", ".">> \o IntMin \o <<" ", "1", "0", ":", "0", "0">> }

\* the instants the expressions are read at: 10:00 and 15:00 of the first day
Times == {StartTime, 15 * Hour}

Args ==
    {[fn |-> "parse_ai_response", text |-> r, t |-> 0] : r \in ProtocolTexts}
        \cup {[fn |-> "parse_send_time", text |-> e, t |-> t] : e \in TimeTexts, t \in Times}

ParseInit ==
    /\ now = StartTime
    /\ jobs = <<>>
    /\ nextJobId = 1
    /\ threads = <<>>
    /\ fired = <<>>
    /\ conversation_memory = <<>>
    /\ email_planning_state = <<>>
    /\ user_emails = <<>>
    /\ mainPc = "idle"
    /\ pending = NoPending
    /\ reply = NoReply
    /\ lastOp = Op("init", 0, 0, FALSE)
    /\ calls = 0
    /\ arg \in Args
    /\ result = NoResult

call_parse_ai_response ==
    /\ arg.fn = "parse_ai_response"
    /\ result = NoResult
    /\ result' = [fn |-> arg.fn, out |-> parse_ai_response(arg.text)]
    /\ UNCHANGED <<now, jobs, nextJobId, threads, fired, conversation_memory,
                   email_planning_state, user_emails, mainPc, pending, reply, lastOp,
                   calls, arg>>

call_parse_send_time ==
    /\ arg.fn = "parse_send_time"
    /\ result = NoResult
    /\ result' = [fn |-> arg.fn, out |-> parse_send_time(arg.text, arg.t)]
    /\ UNCHANGED <<now, jobs, nextJobId, threads, fired, conversation_memory,
                   email_planning_state, user_emails, mainPc, pending, reply, lastOp,
                   calls, arg>>

ParseNext == call_parse_ai_response \/ call_parse_send_time

ParseSpec == ParseInit /\ [][ParseNext]_vars

---------------------------------------------------------------------------
(* The history at work: appends under every configured maximum.            *)

\* appends in the behaviours of the history
HistoryCalls == 3

\* the values of max_conversation_history (MAX_CONVERSATION_HISTORY is read
\* with int(), lines 116-120)
Maxima == 0..2

Roles == {"user", "assistant"}

HistoryInit ==
    /\ now = StartTime
    /\ jobs = <<>>
    /\ nextJobId = 1
    /\ threads = <<>>
    /\ fired = <<>>
    /\ conversation_memory = <<>>
    /\ email_planning_state = <<>>
    /\ user_emails = <<>>
    /\ mainPc = "idle"
    /\ pending = NoPending
    /\ reply = NoReply
    /\ lastOp = Op("init", 0, 0, FALSE)
    /\ calls = 0
    /\ arg \in {[fn |-> "add_to_memory", max_history |-> m] : m \in Maxima}
    /\ result = NoResult

\* one call of add_to_memory; the turns are numbered, and the result
\* records the list the turn was appended to, before line 193
call_add_to_memory(u, role) ==
    LET content == IntStr(calls + 1)
    IN  /\ arg.fn = "add_to_memory"
        /\ conversation_memory' =
               add_to_memory_under(arg.max_history, conversation_memory, u, role, content)
        /\ result' = [fn |-> arg.fn, u |-> u,
                      appended |-> Append(get_user_memory(conversation_memory, u).messages,
                                          [role |-> role, content |-> content])]
        /\ calls' = calls + 1
        /\ UNCHANGED <<now, jobs, nextJobId, threads, fired, email_planning_state,
                       user_emails, mainPc, pending, reply, lastOp, arg>>

HistoryBudget == calls < HistoryCalls

HistoryNext == HistoryBudget /\ \E u \in Users, role \in Roles : call_add_to_memory(u, role)

HistorySpec == HistoryInit /\ [][HistoryNext]_vars

---------------------------------------------------------------------------
(* The capability at work: answers and function calls.                     *)

\* messages and /set commands in the behaviours of the capability
ToolCalls == 2

\* the names the capability may call: the two offered and one that is not
ToolNames == KnownTools \cup {"get_weather"}

\* one response of the capability: a failure, no content, text or a plan
Answers ==
    {[kind |-> "error", content |-> <<>>], [kind |-> "empty", content |-> <<>>],
     [kind |-> "text", content |-> <<"o", "k">>],
     [kind |-> "text", content |-> Plan(Za(12, Godzin))]}

\* what the capability does for one message: it answers, or it calls a
\* function and answers when it is called again
ToolOutcomes ==
    Answers \cup {[kind |-> "function_call", content |-> <<>>, name |-> n, then |-> a] :
                     n \in ToolNames, a \in Answers}

\* one call of analyze_message_with_ai; the result records the contexts the
\* capability was called with
call_analyze_message_with_ai(u, text, ai) ==
    LET analysed == analyze_message_with_ai(conversation_memory, u, text, ai)
    IN  /\ mainPc = "idle"
        /\ arg' = [fn |-> "analyze_message_with_ai", u |-> u, text |-> text, ai |-> ai]
        /\ result' = [fn |-> "analyze_message_with_ai",
                      invocations |-> Invocations(conversation_memory, user_emails,
                                                  u, text, ai, now),
                      out |-> analysed.response]
        /\ conversation_memory' = analysed.memory
        /\ calls' = calls + 1
        /\ UNCHANGED <<now, jobs, nextJobId, threads, fired, email_planning_state,
                       user_emails, mainPc, pending, reply, lastOp>>

ToolBudget == calls < ToolCalls

ToolNext ==
    \/ ToolBudget /\ \E u \in Users, text \in UserTexts, ai \in ToolOutcomes :
                        call_analyze_message_with_ai(u, text, ai)
    \/ ToolBudget /\ \E u \in Users, args \in SetArgs : set_command(u, args)

ToolSpec == Init /\ [][ToolNext]_vars

---------------------------------------------------------------------------
(* Tags at work: plans for given dates, by users with and without an       *)
(* address of their own.                                                   *)

\* messages and /set commands in the behaviours of the tags
TagCalls == 3

\* plans for 10:00 of the next day and of the day after
DatedPlans ==
    {[kind |-> "text", content |-> Plan(get_actual_datetime(StartTime + d * Day))] :
        d \in {1, 2}}

TagBudget == calls < TagCalls

TagNext ==
    \/ TagBudget /\ \E u \in Users, ai \in DatedPlans : handle_text_message(u, Hello, ai)
    \/ FinishRegistration
    \/ TagBudget /\ \E u \in Users, args \in SetArgs : set_command(u, args)

TagSpec == Init /\ [][TagNext]_vars

---------------------------------------------------------------------------
(* Voice at work: transcriptions and texts, with every answer of the       *)
(* capability.                                                             *)

\* messages in the behaviours of the voice
VoiceCalls == 2

VoiceBudget == calls < VoiceCalls

VoiceNext ==
    \/ VoiceBudget /\ \E u \in Users, text \in UserTexts, ai \in AiOutcomes :
                         process_transcribed_message(u, text, ai)
    \/ VoiceBudget /\ \E u \in Users, text \in UserTexts, ai \in AiOutcomes :
                         handle_text_message(u, text, ai)
    \/ FinishRegistration

VoiceSpec == Init /\ [][VoiceNext]_vars

---------------------------------------------------------------------------
(* Cancelling at work: one-shot jobs that fire while other jobs are in     *)
(* the store, for users with addresses of their own.                      *)

\* handler calls and steps of the clock in the behaviours of cancelling
CancelCalls == 3

CancelTicks == 1

\* an address that passes the check of /set and ends like the tag of a job
\* for the default recipient one day after the start
TagLike == default_recipient \o <<"_">> \o TimestampStr(StartTime + Day)

\* the arguments of /set here: that address and an ordinary one
CancelArgs == { <<TagLike>>, <<<<"a", "@", "b", ".", "c">>>> }

\* plans for the next instant of the clock and for one day ahead
CancelOutcomes ==
    {[kind |-> "text", content |-> Plan(t)] : t \in {Za(12, Godzin), Za(1, Dni)}}

CancelBudget == calls < CancelCalls

CancelTime == now < StartTime + CancelTicks * TickStep

CancelNext ==
    \/ CancelBudget /\ \E u \in Users, ai \in CancelOutcomes : handle_text_message(u, Hello, ai)
    \/ CancelBudget /\ \E u \in Users, args \in CancelArgs : set_command(u, args)
    \/ CancelBudget /\ \E at \in DailyTimes : schedule_email(default_recipient, Subject, Body, at)
    \/ FinishRegistration
    \/ \E w \in 1..Len(threads) : run_pending(w)
    \/ \E w \in 1..Len(threads), sent \in BOOLEAN : run_job(w, sent)
    \/ CancelTime /\ Tick

CancelSpec == Init /\ [][CancelNext]_vars

---------------------------------------------------------------------------
(* The claims.                                                             *)

OneShots == {i \in 1..Len(jobs) : jobs[i].kind = "once"}

\* the scheduler threads of the bot that are running
Live == {w \in 1..Len(threads) : threads[w].daemon /\ threads[w].pc # "exited"}

InRun == {w \in 1..Len(threads) : threads[w].pc = "run"}

\* the jobs a run has executed so far, in the order it executed them
Executed(w) == SubSeq(threads[w].due, 1, threads[w].done)

\* C1: after the action of a one-shot job has run, whether the send
\* succeeded or failed, the job is no longer in the job store.
C1_FiredOneShotIsGone == \A i \in OneShots : fired[jobs[i].id] = 0

\* C2: the send action of a one-shot job is executed at most once, also
\* when several scheduler threads poll the same job store.
C2_OneShotFiresAtMostOnce == \A i \in OneShots : fired[jobs[i].id] <= 1

\* C3: the scheduler loop stops only on a shutdown request, of which the
\* code has none: the loop that ran the action of a job keeps polling.
C3_LoopSurvivesItsJobs ==
    [][\A w \in 1..Len(threads) : threads[w].pc = "run" => threads'[w].pc # "exited"]_vars

\* C4: every registered one-shot job is eventually fired once its target
\* instant has passed, also when other jobs become due and fire earlier.
C4_DueOneShotEventuallyFires ==
    \A id \in 1..MaxCalls :
        (\E i \in OneShots : jobs[i].id = id /\ jobs[i].tags # {} /\ now >= jobs[i].next_run)
            ~> (id <= Len(fired) /\ fired[id] > 0)

\* C5: when several jobs are due in the same run of pending jobs, every one
\* of them has its action executed in that run.
C5_RunExecutesEveryDueJob ==
    \A w \in 1..Len(threads) :
        threads[w].pc # "run" => threads[w].done = Len(threads[w].due)

\* C6: at most one scheduler thread is running at any time: a dispatch of
\* schedule_email that finds a scheduler thread running starts no second one.
C6_AtMostOneWorker ==
    [][(mainPc = "registering" /\ mainPc' = "idle" /\ Live # {})
           => Len(threads') = Len(threads)]_vars

\* C7: no two contexts are inside a job-store operation at the same time:
\* a registration of the message-handling path and the runs of pending
\* jobs of the scheduler threads never overlap.
C7_StoreAccessSerialized ==
    Cardinality(InRun) + (IF mainPc = "registering" THEN 1 ELSE 0) <= 1

\* C8: a daily job stays in the job store, and whenever a run of pending
\* jobs finds it due, that run executes its action.
C8_DueDailyJobRuns ==
    \A w \in 1..Len(threads) :
        threads[w].pc # "run" =>
            \A k \in 1..Len(threads[w].due) :
                threads[w].due[k].kind = "daily" =>
                    /\ k <= threads[w].done
                    /\ threads[w].due[k].id \in JobIds(jobs)

C10_UnexpectedFileChangesNothing ==
    [][(/\ calls' = calls + 1
        /\ lastOp'.op = "document"
        /\ ~WaitingForAttachment(email_planning_state, lastOp'.who))
       => /\ reply' = NotExpecting
          /\ UNCHANGED <<jobs, nextJobId, fired, threads, conversation_memory,
                         email_planning_state, user_emails, mainPc, pending, now>>]_vars

\* a file was refused while a job was in the store and the user had a history
C10_Witness ==
    /\ lastOp.op = "document"
    /\ reply = NotExpecting
    /\ jobs # <<>>
    /\ lastOp.who \in DOMAIN conversation_memory
    /\ ~WaitingForAttachment(email_planning_state, lastOp.who)


\* the text that follows the marker a response starts with
Remainder(text, marker) == SubSeq(text, Len(marker) + 1, Len(text))

\* parse_ai_response was applied to a response that starts with the marker
ParsedAfter(marker) ==
    result.fn = "parse_ai_response" /\ startswith(arg.text, marker)

\* C15: a response that starts with "GOTOWE:" followed by exactly three
\* fields parses to schedule_email, and subject, body and time expression
\* are the three fields, trimmed and otherwise verbatim, whatever a field
\* holds, the marker text included.
C15_ReadyFieldsVerbatim ==
    ParsedAfter(GOTOWE) =>
        LET fields == split(Remainder(arg.text, GOTOWE), "|")
        IN  Len(fields) = 3 =>
                /\ result.out.action = "schedule_email"
                /\ result.out.data.subject = strip(fields[1])
                /\ result.out.data.body = strip(fields[2])
                /\ result.out.data.send_time = strip(fields[3])

\* C16: a response that starts with "GOTOWE:" and has fewer or more than
\* three fields parses to text_response, and the message is the response
\* as it was.
C16_MalformedReadyIsText ==
    ParsedAfter(GOTOWE) =>
        LET fields == split(Remainder(arg.text, GOTOWE), "|")
        IN  Len(fields) # 3 =>
                /\ result.out.action = "text_response"
                /\ result.out.data.message = arg.text

\* C17: a response that starts with the attachment marker parses to
\* request_attachment, and the info is the text that follows the marker.
C17_RequestInfoIsRemainder ==
    ParsedAfter(ZALACZNIK) =>
        /\ result.out.action = "request_attachment"
        /\ result.out.data.info = strip(Remainder(arg.text, ZALACZNIK))

\* C19: parse_send_time returns for every expression and every instant it
\* is read at, and what it returns is strictly after that instant.
C19_ParseReturnsFutureInstant ==
    result.fn = "parse_send_time" =>
        /\ ~result.out.raised
        /\ result.out.t > arg.t

\* the unit a word names by its stem, 0 if it names none
UnitOfStem(word) ==
    IF startswith(word, Minut) THEN Minute
    ELSE IF startswith(word, Godzin) THEN Hour
    ELSE IF startswith(word, Dni) THEN Day
    ELSE 0

\* C20: "za N unit" with an integer N and a unit of the stems minut,
\* godzin, dni gives exactly the instant N minutes, hours, days from now.
C20_RelativeIsExact ==
    result.fn = "parse_send_time" =>
        LET words == splitws(lower(strip(arg.text)))
        IN  (/\ Len(words) = 3
             /\ words[1] = <<"z", "a">>
             /\ IsInt(words[2])
             /\ UnitOfStem(words[3]) # 0)
                => /\ ~result.out.raised
                   /\ result.out.t - arg.t = int(words[2]) * UnitOfStem(words[3])


\* the history of a user
History(u) == get_user_memory(conversation_memory, u).messages

\* a text of the ready-marker grammar: the marker and exactly three fields
MatchesReady(content) ==
    startswith(content, GOTOWE) /\ Len(split(Remainder(content, GOTOWE), "|")) = 3

\* the assistant turns of a history that match the ready-marker grammar
ReadyTurns(messages) ==
    {i \in 1..Len(messages) :
        messages[i].role = "assistant" /\ MatchesReady(messages[i].content)}

Latest(turns) == CHOOSE i \in turns : \A j \in turns : j <= i

\* this step is handle_document for a file of user u, who is waiting for one
FileOfWaiting(u) ==
    /\ calls' = calls + 1
    /\ lastOp'.op = "document"
    /\ lastOp'.who = u
    /\ WaitingForAttachment(email_planning_state, u)

\* C11: a file of a waiting user is correlated with the most recent
\* assistant turn of the history that matches the ready-marker grammar,
\* newer assistant turns of other kinds notwithstanding: a one-shot job of
\* that turn's subject, body and time is registered, with the path of the
\* saved file in its payload.
C11_FileJoinsLatestReadyTurn ==
    [][\A u \in Users :
        (FileOfWaiting(u) /\ ReadyTurns(History(u)) # {}) =>
            LET turn == History(u)[Latest(ReadyTurns(History(u)))].content
                data == parse_ai_response(turn).data
                when == parse_send_time(data.send_time, now)
            IN  (~when.raised /\ InFuture(when.t, now)) =>
                    /\ Len(jobs') = Len(jobs) + 1
                    /\ jobs'[Len(jobs')].subject = data.subject
                    /\ jobs'[Len(jobs')].body = data.body
                    /\ jobs'[Len(jobs')].next_run = when.t
                    /\ \E f \in FileNames :
                          jobs'[Len(jobs')].attachments = <<AttachmentPath(u, now, f)>>]_vars

\* this step ends a handler that dispatched the action for user u
DispatchDone(u, action) ==
    /\ calls' = calls + 1 \/ mainPc = "registering"
    /\ mainPc' = "idle"
    /\ lastOp'.who = u
    /\ lastOp'.action = action

\* this step ends handle_document for a file of user u, taken or refused
FileDone(u) ==
    /\ calls' = calls + 1 \/ mainPc = "registering"
    /\ mainPc' = "idle"
    /\ lastOp'.who = u
    /\ lastOp'.handler = "document"

\* C12: the waiting-for-attachment flag of a user is true exactly when the
\* last action dispatched for the user was request_attachment and no file
\* of the user was taken or refused since: the dispatch of a request sets
\* it, the dispatch of another action and the handling of a file leave it
\* false, and no other step changes it.
C12_WaitingIffRequestPending ==
    [][\A u \in Users :
        IF DispatchDone(u, "request_attachment")
        THEN WaitingForAttachment(email_planning_state', u)
        ELSE IF \/ DispatchDone(u, "schedule_email")
                \/ DispatchDone(u, "text_response")
                \/ FileDone(u)
        THEN ~WaitingForAttachment(email_planning_state', u)
        ELSE WaitingForAttachment(email_planning_state', u)
                 = WaitingForAttachment(email_planning_state, u)]_vars

\* this step ends a handle_document of user u that joined the file with a
\* plan and answers that the e-mail is scheduled
FileScheduled(u) ==
    \/ /\ calls' = calls + 1
       /\ lastOp'.op = "document"
       /\ lastOp'.who = u
       /\ reply'.kind = "scheduled"
    \/ /\ mainPc = "registering"
       /\ mainPc' = "idle"
       /\ pending.handler = "document"
       /\ pending.u = u

C14_FileWithoutPlanIsKept ==
    [][\A u \in Users :
        (FileOfWaiting(u) /\ ReadyTurns(History(u)) = {}) =>
            /\ reply'.kind = "attachment_saved"
            /\ UNCHANGED <<jobs, nextJobId, fired, threads>>]_vars

IsClock(s) ==
    /\ Len(s) = 5
    /\ IsDigit(s[1]) /\ IsDigit(s[2]) /\ s[3] = ":" /\ IsDigit(s[4]) /\ IsDigit(s[5])
    /\ NatVal(SubSeq(s, 1, 2)) <= 23
    /\ NatVal(SubSeq(s, 4, 5)) <= 59

\* that time of the day t lies in
TodayAt(s, t) == (t \div Day) * Day + NatVal(SubSeq(s, 1, 2)) * Hour + NatVal(SubSeq(s, 4, 5)) * Minute

\* C21: a five-character HH:MM gives today at that time when that is
\* strictly after now, and the same time of the next day otherwise, also
\* when it is now.
C21_ClockTimeRollsForward ==
    (result.fn = "parse_send_time" /\ IsClock(arg.text)) =>
        /\ ~result.out.raised
        /\ result.out.t = IF TodayAt(arg.text, arg.t) > arg.t
                          THEN TodayAt(arg.text, arg.t)
                          ELSE TodayAt(arg.text, arg.t) + Day

\* the time of the day that it is now was parsed, and moved to the next day
C21_Witness ==
    /\ result.fn = "parse_send_time"
    /\ IsClock(arg.text)
    /\ TodayAt(arg.text, arg.t) = arg.t
    /\ result.out.t = arg.t + Day

\* an expression of the relative grammar that parses
RelativeParses(s) ==
    LET words == splitws(s)
    IN  Len(words) >= 3 /\ IsInt(words[2]) /\ UnitOfStem(words[3]) # 0

\* an expression of the absolute grammar that parses: two fields, a date
\* that exists and a time of the day
AbsoluteParses(s) ==
    LET fields == splitws(s)
    IN  /\ Len(fields) = 2
        /\ LET date == split(fields[1], ".")
               time == split(fields[2], ":")
           IN  /\ Len(date) = 3 /\ Len(time) = 2 /\ AllInt(date) /\ AllInt(time)
               /\ \A n \in {date[1], date[2], date[3], time[1], time[2]} : ~BeyondCInt(n)
               /\ ValidDate(int(date[3]), int(date[2]), int(date[1]),
                            int(time[1]), int(time[2]))

\* the expression parses in the grammar its shape selects, the first of
\* relative, absolute and clock
Parses(text) ==
    LET s == lower(strip(text))
    IN  IF startswith(s, <<"z", "a", " ">>) THEN RelativeParses(s)
        ELSE IF contains(s, <<".">>) /\ contains(s, <<":">>) THEN AbsoluteParses(s)
        ELSE IsClock(s)

\* C22: an expression of none of the three grammars, and one that has the
\* shape of a grammar and does not parse in it, gives now + 1 hour; no
\* grammar after the one its shape selects is tried.
C22_UnparsedGivesFallback ==
    (result.fn = "parse_send_time" /\ ~Parses(arg.text)) =>
        /\ ~result.out.raised
        /\ result.out.t = arg.t + 1 * Hour

---------------------------------------------------------------------------
(* The address a user's emails go to.                                      *)

\* the step is a /set of u that was given an address the command accepts
SetsEmail(u) ==
    /\ calls' = calls + 1
    /\ lastOp'.op = "set"
    /\ lastOp'.who = u
    /\ reply'.kind = "email_set"

\* C23: the address a user's emails go to is the default of the process
\* until that user sets one with /set, and from then on it is the address
\* that user set last, whatever any user does in between: a step changes
\* it only if it is a /set of that user with an accepted address, and
\* then to that address.
C23_TargetEmailIsLastSet ==
    /\ \A u \in Users : get_user_email(user_emails, u) = default_recipient
    /\ [][\A u \in Users :
            get_user_email(user_emails', u) =
                IF SetsEmail(u) THEN reply'.text ELSE get_user_email(user_emails, u)]_vars

\* a user who set an address had a plan registered for it, while the
\* other user still has the default
C23_Witness ==
    /\ lastOp.op = "registered"
    /\ lastOp.handler = "text"
    /\ lastOp.who \in DOMAIN user_emails
    /\ user_emails[lastOp.who] # default_recipient
    /\ \E i \in 1..Len(jobs) : jobs[i].to = user_emails[lastOp.who]
    /\ \E v \in Users : v # lastOp.who /\ get_user_email(user_emails, v) = default_recipient

---------------------------------------------------------------------------
(* The length of the history.                                              *)

\* the last n elements of a list, all of it if it is shorter
MostRecent(messages, n) ==
    IF Len(messages) > n THEN SubSeq(messages, Len(messages) - n + 1, Len(messages))
    ELSE messages

\* C24: after every append the history of the user holds at most the
\* configured maximum of turns, and they are the most recent turns of the
\* list appended to, in their order, for every configured maximum.
C24_HistoryKeepsMostRecent ==
    result.fn = "add_to_memory" =>
        LET kept == conversation_memory[result.u].messages
        IN  /\ Len(kept) <= arg.max_history
            /\ kept = MostRecent(result.appended, arg.max_history)

\* the same for the maxima above zero
C24_PositiveMaximum ==
    (result.fn = "add_to_memory" /\ arg.max_history > 0) =>
        LET kept == conversation_memory[result.u].messages
        IN  /\ Len(kept) <= arg.max_history
            /\ kept = MostRecent(result.appended, arg.max_history)

---------------------------------------------------------------------------
(* Function calls of the capability.                                       *)

\* what the user is told for a response that is final
Told(answer) ==
    CASE answer.kind = "error" -> Apology
      [] answer.kind = "empty" -> NoAnswer
      [] OTHER -> answer.content

\* the capability was asked about a message and called a function
CalledFunction ==
    /\ result.fn = "analyze_message_with_ai"
    /\ strip(arg.text) # <<>>
    /\ arg.ai.kind = "function_call"

\* the second context is the first with one turn more, the result of the
\* function called, and the response to it is the one the user is told
ToolTurnThenFinal ==
    LET inv == result.invocations
    IN  /\ Len(inv) = 2
        /\ Len(inv[2]) = Len(inv[1]) + 1
        /\ SubSeq(inv[2], 1, Len(inv[1])) = inv[1]
        /\ inv[2][Len(inv[2])].role = "function"
        /\ inv[2][Len(inv[2])].name = arg.ai.name
        /\ result.out = Told(arg.ai.then)

C25_OfferedFunction ==
    /\ result.fn = "analyze_message_with_ai" => Len(result.invocations) <= 2
    /\ (CalledFunction /\ arg.ai.name \in KnownTools) => ToolTurnThenFinal

---------------------------------------------------------------------------
(* A failure of the capability.                                            *)

\* the step is a text message whose analysis failed: the user is told the
\* apology of line 337
FailedAnalysis ==
    /\ calls' = calls + 1
    /\ lastOp'.op = "text"
    /\ reply' = Reply("text", Apology)

\* jobs, loops, the waiting flags with their requests and the addresses
\* are as before the step
NothingPlanned ==
    /\ jobs' = jobs
    /\ threads' = threads
    /\ mainPc' = mainPc
    /\ email_planning_state' = email_planning_state
    /\ user_emails' = user_emails

\* C26: when the call of the capability fails for a message, the user is
\* told the fixed apology and nothing else changes: no job, no loop, and
\* the waiting flag, the pending request, the address and the history of
\* the user are as before the message.
C26_FailureLeavesStateAsBefore ==
    [][FailedAnalysis =>
          /\ NothingPlanned
          /\ \A u \in Users :
                get_user_memory(conversation_memory', u).messages =
                    get_user_memory(conversation_memory, u).messages]_vars

\* the same without the history
C26_FailurePlansNothing == [][FailedAnalysis => NothingPlanned]_vars

---------------------------------------------------------------------------
(* The tags of one-shot jobs.                                              *)

\* the step ends the registration of the job pending.id for pending.u
Registers == mainPc = "registering" /\ mainPc' = "idle"

\* the plans the capability has made for a user so far
PlansOf(u) == Cardinality(ReadyTurns(History(u)))

\* C27: the tag of a one-shot job is unique per user, recipient and
\* instant: jobs that differ in one of them never carry the same tag. When
\* the first plan of a user is registered, every job in the store comes
\* from somebody else, so none of them carries the tag of the new job.
C27_TagUniquePerUser ==
    [][(Registers /\ PlansOf(pending.u) = 1) =>
          \A i \in 1..Len(jobs) :
              jobs[i].id # pending.id => pending.tag \notin jobs[i].tags]_vars

\* jobs with a common tag have the same recipient and the same instant
C27_TagFixesRecipientAndInstant ==
    \A i, j \in 1..Len(jobs) :
        jobs[i].tags \cap jobs[j].tags # {} =>
            jobs[i].to = jobs[j].to /\ jobs[i].next_run = jobs[j].next_run

---------------------------------------------------------------------------
(* The end of a loop.                                                      *)

\* the step runs the action of a one-shot job in loop w and the mail
\* transport reports a failure
FailedOnce(w) ==
    /\ w \in 1..Len(threads)
    /\ threads[w].pc = "run"
    /\ threads[w].due[threads[w].done + 1].kind = "once"
    /\ fired' # fired
    /\ lastOp' = Op("run_job", w, threads[w].due[threads[w].done + 1].id, FALSE)

\* C28: a one-shot job ends the loop that runs it only when its mail was
\* sent: when the mail transport reports a failure, the loop keeps running.
C28_FailedSendKeepsLoop ==
    [][\A w \in 1..Len(threads) : FailedOnce(w) => threads'[w].pc # "exited"]_vars

\* a loop ends only in the action of a one-shot job
C28_OnlyOneShotsEndLoops ==
    [][\A w \in 1..Len(threads) :
          (threads[w].pc # "exited" /\ threads'[w].pc = "exited") =>
              /\ threads[w].pc = "run"
              /\ threads[w].due[threads[w].done + 1].kind = "once"]_vars

---------------------------------------------------------------------------
(* Sessions of different users.                                            *)

\* the user the step works for: the sender of the message, file or
\* command handled, or the user whose registration ends; 0 for the steps
\* of the loops and of the clock
Actor ==
    IF calls' = calls + 1 THEN lastOp'.who
    ELSE IF Registers THEN pending.u
    ELSE 0

\* the session of user b is the same after the step
SessionKept(b) ==
    /\ get_user_memory(conversation_memory', b).messages =
           get_user_memory(conversation_memory, b).messages
    /\ WaitingForAttachment(email_planning_state', b) =
           WaitingForAttachment(email_planning_state, b)
    /\ WaitingForAttachment(email_planning_state, b) =>
           email_planning_state'[b] = email_planning_state[b]
    /\ get_user_email(user_emails', b) = get_user_email(user_emails, b)

---------------------------------------------------------------------------
(* Attachments from the request to the job.                                *)

\* the last thing the bot did was to ask user u for an attachment
Asked(u) ==
    /\ lastOp.who = u
    /\ lastOp.action = "request_attachment"
    /\ reply.kind = "request_attachment"

\* C30: attachments work from end to end: the bot asks a user for an
\* attachment, the user uploads a file, and a one-shot job is registered
\* whose payload contains the path of that file.
C30_RequestedFileIsRegistered ==
    [][\A u \in Users :
        (Asked(u) /\ FileOfWaiting(u)) =>
            /\ Len(jobs') = Len(jobs) + 1
            /\ jobs'[Len(jobs')].kind = "once"
            /\ \E f \in FileNames :
                  jobs'[Len(jobs')].attachments = <<AttachmentPath(u, now, f)>>]_vars

\* no job in the store carries a file
C30_NoJobCarriesAFile == \A i \in 1..Len(jobs) : jobs[i].attachments = <<>>

---------------------------------------------------------------------------
(* Instants that are not in the future.                                    *)

\* the step is a handler that reaches schedule_email_datetime: it
\* dispatched a plan whose time was parsed without an exception
CallsScheduler ==
    /\ calls' = calls + 1
    /\ lastOp'.action = "schedule_email"
    /\ ~parse_send_time(lastOp'.data.send_time, now).raised

\* C31: schedule_email_datetime registers a one-shot job only for an
\* instant strictly after the current time, and for an instant at or
\* before it the job store stays as it is; so every one-shot job in the
\* store has a positive delay.
C31_OnlyFutureInstantsRegister ==
    /\ [](\A i \in 1..Len(jobs) : jobs[i].kind = "once" => jobs[i].period > 0)
    /\ [][CallsScheduler =>
            LET target == parse_send_time(lastOp'.data.send_time, now).t
            IN  IF target > now
                THEN /\ Len(jobs') = Len(jobs) + 1
                     /\ SubSeq(jobs', 1, Len(jobs)) = jobs
                     /\ jobs'[Len(jobs')].kind = "once"
                     /\ jobs'[Len(jobs')].next_run = target
                     /\ jobs'[Len(jobs')].period = target - now
                ELSE jobs' = jobs]_vars

\* a plan for the present instant went through the handler and the job
\* store is empty
C31_Witness ==
    /\ lastOp.action = "schedule_email"
    /\ lastOp.data.send_time = Za(0, Minut)
    /\ lastOp.op = "text"
    /\ jobs = <<>>

---------------------------------------------------------------------------
(* The confirmation of a plan.                                             *)

\* the step ends a call of schedule_email_from_ai with the confirmation
\* of line 477 as the reply
Confirms ==
    /\ calls' = calls + 1 \/ Registers
    /\ reply'.kind = "scheduled"

\* the call that ends with this step has added a one-shot job for the
\* subject, body, recipient and instant of the confirmation
AddedConfirmedJob ==
    /\ lastOp'.job \in JobIds(jobs') \ JobIds(IF Registers THEN <<>> ELSE jobs)
    /\ LET job == JobOf(jobs', lastOp'.job)
       IN  /\ job.kind = "once"
           /\ job.subject = reply'.text
           /\ job.body = lastOp'.data.body
           /\ job.to = reply'.to
           /\ job.next_run = reply'.when

\* C32: whenever schedule_email_from_ai answers the user with the
\* confirmation, that call has added a one-shot job for that subject,
\* body, recipient and instant to the job store.
C32_ConfirmationMeansJob == [][Confirms => AddedConfirmedJob]_vars

\* the same for the confirmations of an instant in the future
C32_FutureConfirmationMeansJob ==
    [][(Confirms /\ reply'.when > now) => AddedConfirmedJob]_vars

---------------------------------------------------------------------------
(* Files that are kept for later.                                          *)

\* the step is a file of the waiting user u that is saved and
\* acknowledged, no job made of it
SavedOnly(u) ==
    /\ FileOfWaiting(u)
    /\ reply'.kind = "attachment_saved"
    /\ jobs' = jobs

\* C33: when a file of a waiting user is saved and acknowledged without a
\* job, the user keeps waiting for an attachment, with the same request,
\* and a file of a waiting user is never refused as unexpected: the next
\* file of that user is taken too.
C33_SavedFileKeepsWaiting ==
    /\ [][\A u \in Users :
            SavedOnly(u) =>
                /\ WaitingForAttachment(email_planning_state', u)
                /\ email_planning_state'[u] = email_planning_state[u]]_vars
    /\ [][\A u \in Users : FileOfWaiting(u) => reply' # NotExpecting]_vars

\* the third call is a file that is saved, after a request and something
\* else of the same user, the only one with a session, who still waits
C33_Witness ==
    /\ calls = 3
    /\ lastOp.op = "document"
    /\ reply.kind = "attachment_saved"
    /\ WaitingForAttachment(email_planning_state, lastOp.who)
    /\ DOMAIN email_planning_state = {lastOp.who}
    /\ Len(History(lastOp.who)) = 2

---------------------------------------------------------------------------
(* Voice and text.                                                         *)

\* C34: after transcription the voice path is the text path: from the
\* same state, with the same text and the same responses of the
\* capability, process_transcribed_message makes the step that
\* handle_text_message makes, with the same reply, sessions and job store,
\* also for a ready marker with fewer than 3 fields.
C34_VoiceStepIsTextStep ==
    [][\A u \in Users, text \in UserTexts, ai \in AiOutcomes :
          process_transcribed_message(u, text, ai) => handle_text_as(u, text, ai, "voice")]_vars

\* the same for the responses that parse_ai_response has an action for
C34_VoiceStepIsTextStepWhenParsed ==
    [][\A u \in Users, text \in UserTexts, ai \in AiOutcomes :
          (/\ process_transcribed_message(u, text, ai)
           /\ parse_ai_response(analyze_message_with_ai(conversation_memory, u, text, ai).response).action
                  # "None")
              => handle_text_as(u, text, ai, "voice")]_vars

---------------------------------------------------------------------------
(* What a firing one-shot job cancels.                                     *)

\* the job whose action loop w runs next, as run_pending() collected it:
\* its key is the instant it was due
Running(w) == threads[w].due[threads[w].done + 1]

\* the step runs the action of a one-shot job in loop w
FiresOnce(w) ==
    /\ threads[w].pc = "run"
    /\ Running(w).kind = "once"
    /\ fired' # fired
    /\ lastOp'.op = "run_job"
    /\ lastOp'.who = w

\* job is another job than the one that fires: recurring, or one-shot for
\* another recipient or another instant
Other(job, firing) ==
    \/ job.kind = "daily"
    \/ job.kind = "once" /\ (job.to # firing.to \/ job.next_run # firing.key)

\* the job is in the store after the step as it was before
Kept(job) == \E j \in 1..Len(jobs') : jobs'[j] = job

\* C35: the cancel-by-tag of a one-shot job that fires leaves every other
\* job in the store: recurring jobs and one-shot jobs for another
\* recipient or another instant are neither removed nor rescheduled.
C35_CancelLeavesOtherJobs ==
    [][\A w \in 1..Len(threads) :
          FiresOnce(w) =>
              \A i \in 1..Len(jobs) : Other(jobs[i], Running(w)) => Kept(jobs[i])]_vars

\* the same for the jobs that fire for a recipient without "_" in the
\* address
C35_PlainAddressCancelsNothing ==
    [][\A w \in 1..Len(threads) :
          (FiresOnce(w) /\ ~contains(Running(w).to, <<"_">>)) =>
              \A i \in 1..Len(jobs) : Other(jobs[i], Running(w)) => Kept(jobs[i])]_vars

===========================================================================
